---------------------------- MODULE Spec2Model ----------------------------
(***************************************************************************)
(* A model of the l3queue queues: HeQueue (src/src/he_queue.rs), CrsQueue   *)
(* (src/src/crs_queue.rs), LinkedQueue (src/src/lq.rs) and LockQueue       *)
(* (src/src/lock_queue.rs).  Every atomic load, compare_exchange and       *)
(* fetch_add/fetch_sub of the source is one step of the thread that        *)
(* executes it.  The heap is a set of node cells; a cell is unallocated,   *)
(* live or freed.  The contents of a freed cell are indeterminate: a load  *)
(* of its next field yields the pointer it held or null, a read of its     *)
(* item any value or None, as when the memory backs a later node.  A       *)
(* dereference of a freed cell is recorded in hazards.                     *)
(***************************************************************************)
EXTENDS Integers, Sequences, FiniteSets, TLC

\* ------------------------------------------------------------------ bounds
\* pushes per producer thread (the tests' `pad`)
MaxPush == 2
\* pop calls per consumer thread
MaxPop == 2

Producers == {"p1", "p2"}
Consumers == {"c1", "c2"}
Threads == Producers \cup Consumers

\* the value pushed by producer p's k-th push: producers push disjoint ranges
Value(p, k) == IF p = "p1" THEN k ELSE MaxPush + k
Values == 1 .. (MaxPush + (MaxPush - 1))

\* Option::None for an item, Shared::null()/ptr::null_mut() for a pointer
None == 0
NULL == 0

\* workloads: the number of calls each thread makes in a run.  Producers only
\* push, consumers only pop.
WorkHe == [p1 |-> MaxPush, p2 |-> MaxPush - 1, c1 |-> MaxPop, c2 |-> MaxPop]
WorkCrs == [p1 |-> MaxPush, p2 |-> MaxPush - 1, c1 |-> MaxPop, c2 |-> MaxPop - 1]
\* one consumer thread
WorkSC == [p1 |-> MaxPush, p2 |-> MaxPush - 1, c1 |-> MaxPop + 1, c2 |-> 0]

MaxNodes == 1 + MaxPush + (MaxPush - 1)
Nodes == 1 .. MaxNodes
\* the heap functions are total on pointers; cell 0 stands for the null pointer
Ptrs == 0 .. MaxNodes

VARIABLES
    flavor,      \* which queue type the run is about: "he", "crs", "lq" or "lock"
    quota,       \* thread -> the number of calls it makes in this run
    flag,        \* test_mpsc: the AtomicI32 flag, the producers that have not reported completion
    mutex,       \* LockQueue: the thread holding inner's lock, or "free"
    list,        \* LockQueue: the LinkedList behind the lock
    len,         \* the AtomicUsize len, as pushes - pops; a value below 0 is the wrapped usize 2^64 + len
    head,        \* self.head
    tail,        \* self.tail
    nst,         \* heap: cell -> "unalloc" | "live" | "freed"
    item,        \* heap: Node.item of each cell
    next,        \* heap: Node.next of each cell
    deferred,    \* cells handed to guard.defer_destroy and not yet destroyed
    blockers,    \* cell -> the threads whose guard must close before it is destroyed
    hazards,     \* memory errors that have happened: "uaf", "double_free", "null_deref"
    pc,          \* thread -> position in its current call
    loc,         \* thread -> the call's local variables
    npush,       \* producer -> pushes returned
    npop,        \* consumer -> pops returned
    linkOrder,   \* values in the order of their successful link CAS
    popOrder,    \* <<consumer, call index>> in the order of the winning head CAS
    ret,         \* consumer -> the return values of its pop calls, None = 0
    drained,     \* a pop that began after every push had returned has returned None
    missed       \* a pop returned None although some value's push had returned before the
                 \* pop began and no other pop removed that value before the pop returned

vars == <<flavor, quota, flag, mutex, list, len, head, tail, nst, item, next, deferred, blockers,
          hazards, pc, loc, npush, npop, linkOrder, popOrder, ret, drained, missed>>

heapVars == <<nst, item, next>>
epochVars == <<deferred, blockers>>
histVars == <<linkOrder, popOrder, ret, drained, missed>>
queueVars == <<len, head, tail>>
runVars == <<flavor, quota, flag>>
lockVars == <<mutex, list>>

NoLocals == [new_node |-> NULL, old_tail |-> NULL, tail_next |-> NULL,
             walk |-> NULL, head |-> NULL, next |-> NULL, data |-> None,
             begun |-> {}]

\* ------------------------------------------------------------------ heap
\* Node::new_empty() in a fresh queue: one sentinel cell, head = tail
InitQueue ==
    /\ flag = Cardinality(Producers)
    /\ mutex = "free"
    /\ list = <<>>
    /\ len = 0
    /\ head = 1
    /\ tail = 1
    /\ nst = [n \in Ptrs |-> IF n = 1 THEN "live" ELSE IF n = NULL THEN "null" ELSE "unalloc"]
    /\ item = [n \in Ptrs |-> None]
    /\ next = [n \in Ptrs |-> NULL]
    /\ deferred = {}
    /\ blockers = [n \in Ptrs |-> {}]
    /\ hazards = {}
    /\ pc = [t \in Threads |-> "idle"]
    /\ loc = [t \in Threads |-> NoLocals]
    /\ npush = [p \in Producers |-> 0]
    /\ npop = [c \in Consumers |-> 0]
    /\ linkOrder = <<>>
    /\ popOrder = <<>>
    /\ ret = [c \in Consumers |-> <<>>]
    /\ drained = FALSE
    /\ missed = FALSE

\* ------------------------------------------------------------------ history
Min(a, b) == IF a <= b THEN a ELSE b

\* the values whose push has returned
PushReturned == UNION {{Value(p, k) : k \in 1 .. npush[p]} : p \in Producers}
AllPushesReturned == \A p \in Producers : npush[p] = quota[p]

\* the values removed by pop calls other than consumer c's current call: the
\* k-th winning head CAS removes the k-th linked value
RemovedByOthers(c) ==
    {linkOrder[k] : k \in {j \in 1 .. Min(Len(popOrder), Len(linkOrder)) :
                              popOrder[j] # <<c, npop[c] + 1>>}}

\* the values the run pushes in all
AllValues == UNION {{Value(p, k) : k \in 1 .. quota[p]} : p \in Producers}

\* what consumer c's call records when it begins: the pushes that have returned
Begin(c) == [loc[c] EXCEPT !.begun = PushReturned]

\* what is recorded when consumer c's call returns v, having begun with locals l
Returned(c, v, l) ==
    /\ ret' = [ret EXCEPT ![c] = Append(@, v)]
    /\ npop' = [npop EXCEPT ![c] = @ + 1]
    /\ drained' = (drained \/ (v = None /\ l.begun = AllValues))
    /\ missed' = (missed \/ (v = None /\ l.begun \ RemovedByOthers(c) # {}))

\* the cell Box::new / Owned::new returns: the lowest cell never used
FreshCell == CHOOSE n \in Nodes : nst[n] = "unalloc" /\ \A m \in Nodes : nst[m] = "unalloc" => n <= m
AllocCells == IF \E n \in Nodes : nst[n] = "unalloc" THEN {FreshCell} ELSE {}

\* the values a load of cell n's next field may yield: a freed cell still holds
\* what it held, or its memory has been cleared
LoadNext(n) == IF nst[n] = "freed" THEN {next[n], NULL} ELSE {next[n]}
\* the values a read of cell n's item field may yield: a freed cell may hold
\* None or any value, as when its memory now backs another node
LoadItem(n) == IF nst[n] = "freed" THEN Values \cup {None} ELSE {item[n]}
\* field function f after a store of v to cell n: a store to a cell that is not
\* live leaves no trace
Store(f, n, v) == IF nst[n] = "live" THEN [f EXCEPT ![n] = v] ELSE f

\* the hazards of dereferencing pointer n
Deref(n) == IF n = NULL THEN {"null_deref"}
            ELSE IF nst[n] = "freed" THEN {"uaf"} ELSE {}

\* the hazards of releasing cell n (Box drop, Owned drop, deferred destroy)
Release(n) == IF n = NULL THEN {"null_deref"}
              ELSE IF nst[n] = "freed" THEN {"double_free"} ELSE {}

\* the threads holding an open epoch guard
Pinned == {t \in Threads :
             pc[t] \in {"push_ldtail", "push_link", "push_ldnext", "push_help",
                        "push_walk", "push_swing", "push_inc",
                        "pop_ldhead", "pop_ldnext", "pop_take_rd", "pop_take_wr",
                        "pop_cas", "pop_take", "pop_dec"}}

\* the blockers once thread t's guard has closed
Unpin(t) == [n \in Ptrs |-> blockers[n] \ {t}]

\* the deferred cells that no open guard blocks once t's guard has closed
Destroyed(t) == {n \in deferred : blockers[n] \ {t} = {}}

\* Guard drop at the end of a call: thread t's guard closes, and every deferred
\* cell that was waiting only for it is destroyed
CloseGuard(t) ==
    /\ blockers' = Unpin(t)
    /\ deferred' = deferred \ Destroyed(t)
    /\ nst' = [n \in Ptrs |-> IF n \in Destroyed(t) /\ nst[n] = "live" THEN "freed" ELSE nst[n]]

\* the hazards of that destruction
CloseHazards(t) == UNION {Release(n) : n \in Destroyed(t)}

\* guard.defer_destroy(h) by pinned thread t: h waits for every guard now open
DeferDestroy(t, h) ==
    /\ deferred' = deferred \cup {h}
    /\ blockers' = [blockers EXCEPT ![h] = Pinned]

\* a null dereference ends the process
Running == "null_deref" \notin hazards

\* ------------------------------------------------------------------ HeQueue::push
HePushBegin(p) ==
    /\ flavor = "he"
    /\ Running
    /\ pc[p] = "idle"
    /\ npush[p] < quota[p]
    /\ \E n \in AllocCells :
         /\ nst' = [nst EXCEPT ![n] = "live"]
         /\ item' = [item EXCEPT ![n] = Value(p, npush[p] + 1)]
         /\ next' = [next EXCEPT ![n] = NULL]
         /\ loc' = [loc EXCEPT ![p].new_node = n]
    /\ pc' = [pc EXCEPT ![p] = "push_ldtail"]
    /\ UNCHANGED <<runVars, lockVars, queueVars, epochVars, hazards, npush, npop, histVars>>

\* a HePushLoadTail that increments the length counter before the node is linked
HePushLoadTailCounting(p) ==
    /\ flavor = "he"
    /\ Running
    /\ pc[p] = "push_ldtail"
    /\ loc' = [loc EXCEPT ![p].old_tail = tail]
    /\ len' = len + 1
    /\ pc' = [pc EXCEPT ![p] = "push_link"]
    /\ UNCHANGED <<runVars, lockVars, head, tail, heapVars, epochVars, hazards, npush, npop, histVars>>

HePushLoadTail(p) ==
    /\ flavor = "he"
    /\ Running
    /\ pc[p] = "push_ldtail"
    /\ loc' = [loc EXCEPT ![p].old_tail = tail]
    /\ pc' = [pc EXCEPT ![p] = "push_link"]
    /\ UNCHANGED <<runVars, lockVars, queueVars, heapVars, epochVars, hazards, npush, npop, histVars>>

HePushLinkCas(p) ==
    /\ flavor = "he"
    /\ Running
    /\ pc[p] = "push_link"
    /\ LET t == loc[p].old_tail IN
         /\ hazards' = hazards \cup Deref(t)
         /\ \E cur \in LoadNext(t) :
              IF cur = NULL
              THEN /\ next' = Store(next, t, loc[p].new_node)
                   /\ linkOrder' = Append(linkOrder, Value(p, npush[p] + 1))
                   /\ pc' = [pc EXCEPT ![p] = "push_swing"]
              ELSE /\ pc' = [pc EXCEPT ![p] = "push_ldnext"]
                   /\ UNCHANGED <<next, linkOrder>>
    /\ UNCHANGED <<runVars, lockVars, queueVars, nst, item, epochVars, loc, npush, npop, popOrder, ret, drained, missed>>

HePushLoadNext(p) ==
    /\ flavor = "he"
    /\ Running
    /\ pc[p] = "push_ldnext"
    /\ hazards' = hazards \cup Deref(loc[p].old_tail)
    /\ \E nx \in LoadNext(loc[p].old_tail) : loc' = [loc EXCEPT ![p].tail_next = nx]
    /\ pc' = [pc EXCEPT ![p] = "push_help"]
    /\ UNCHANGED <<runVars, lockVars, queueVars, heapVars, epochVars, npush, npop, histVars>>

HePushHelpCas(p) ==
    /\ flavor = "he"
    /\ Running
    /\ pc[p] = "push_help"
    /\ tail' = IF tail = loc[p].old_tail THEN loc[p].tail_next ELSE tail
    /\ loc' = [loc EXCEPT ![p].tail_next = NULL, ![p].old_tail = NULL]
    /\ pc' = [pc EXCEPT ![p] = "push_ldtail"]
    /\ UNCHANGED <<runVars, lockVars, len, head, heapVars, epochVars, hazards, npush, npop, histVars>>

\* a HePushSwingCas that leaves tail where it is
HePushSwingSkip(p) ==
    /\ flavor = "he"
    /\ Running
    /\ pc[p] = "push_swing"
    /\ pc' = [pc EXCEPT ![p] = "push_inc"]
    /\ UNCHANGED <<runVars, lockVars, queueVars, heapVars, epochVars, hazards, loc, npush, npop, histVars>>

HePushSwingCas(p) ==
    /\ flavor = "he"
    /\ Running
    /\ pc[p] = "push_swing"
    /\ tail' = IF tail = loc[p].old_tail THEN loc[p].new_node ELSE tail
    /\ pc' = [pc EXCEPT ![p] = "push_inc"]
    /\ UNCHANGED <<runVars, lockVars, len, head, heapVars, epochVars, hazards, loc, npush, npop, histVars>>

HePushInc(p) ==
    /\ flavor = "he"
    /\ Running
    /\ pc[p] = "push_inc"
    /\ len' = len + 1
    /\ CloseGuard(p)
    /\ hazards' = hazards \cup CloseHazards(p)
    /\ npush' = [npush EXCEPT ![p] = @ + 1]
    /\ loc' = [loc EXCEPT ![p] = NoLocals]
    /\ pc' = [pc EXCEPT ![p] = "idle"]
    /\ UNCHANGED <<runVars, lockVars, head, tail, item, next, npop, histVars>>

\* ------------------------------------------------------------------ HeQueue::pop
\* size(): self.len.load(), the same in HeQueue and CrsQueue
size == len

\* an is_empty() that never reports an empty queue
HeNeverEmpty == len < 0

\* is_empty(): 0 == self.len.load()
HeIsEmpty == len = 0

HePopIsEmpty(c) ==
    /\ flavor = "he"
    /\ Running
    /\ pc[c] = "idle"
    /\ npop[c] < quota[c]
    /\ IF HeIsEmpty
       THEN /\ Returned(c, None, Begin(c))
            /\ UNCHANGED <<pc, loc>>
       ELSE /\ pc' = [pc EXCEPT ![c] = "pop_pin"]
            /\ loc' = [loc EXCEPT ![c] = Begin(c)]
            /\ UNCHANGED <<ret, npop, drained, missed>>
    /\ UNCHANGED <<runVars, lockVars, queueVars, heapVars, epochVars, hazards, npush, linkOrder, popOrder>>

HePopLoadHead(c) ==
    /\ flavor = "he"
    /\ Running
    /\ pc[c] \in {"pop_pin", "pop_ldhead"}
    /\ loc' = [loc EXCEPT ![c].head = head, ![c].next = NULL]
    /\ pc' = [pc EXCEPT ![c] = "pop_ldnext"]
    /\ UNCHANGED <<runVars, lockVars, queueVars, heapVars, epochVars, hazards, npush, npop, histVars>>

HePopLoadNext(c) ==
    /\ flavor = "he"
    /\ Running
    /\ pc[c] = "pop_ldnext"
    /\ \E nx \in LoadNext(loc[c].head) :
         IF nx = NULL
         THEN /\ Returned(c, None, loc[c])
              /\ CloseGuard(c)
              /\ hazards' = hazards \cup Deref(loc[c].head) \cup CloseHazards(c)
              /\ loc' = [loc EXCEPT ![c] = NoLocals]
              /\ pc' = [pc EXCEPT ![c] = "idle"]
         ELSE /\ loc' = [loc EXCEPT ![c].next = nx]
              /\ pc' = [pc EXCEPT ![c] = "pop_cas"]
              /\ hazards' = hazards \cup Deref(loc[c].head)
              /\ UNCHANGED <<ret, npop, drained, missed, epochVars, nst>>
    /\ UNCHANGED <<runVars, lockVars, queueVars, item, next, npush, linkOrder, popOrder>>

HePopCas(c) ==
    /\ flavor = "he"
    /\ Running
    /\ pc[c] = "pop_cas"
    /\ IF head = loc[c].head
       THEN /\ head' = loc[c].next
            /\ popOrder' = Append(popOrder, <<c, npop[c] + 1>>)
            /\ pc' = [pc EXCEPT ![c] = "pop_take"]
       ELSE /\ pc' = [pc EXCEPT ![c] = "pop_ldhead"]
            /\ UNCHANGED <<head, popOrder>>
    /\ UNCHANGED <<runVars, lockVars, len, tail, heapVars, epochVars, hazards, loc, npush, npop, linkOrder, ret, drained, missed>>

\* a HePopTake that reads the item and leaves it in the node
HePopTakeKeep(c) ==
    /\ flavor = "he"
    /\ Running
    /\ pc[c] = "pop_take"
    /\ LET n == loc[c].next
           h == loc[c].head IN
         /\ \E d \in LoadItem(n) : loc' = [loc EXCEPT ![c].data = d]
         /\ hazards' = hazards \cup Deref(n)
                         \cup (IF h \in deferred THEN {"double_free"} ELSE {})
         /\ DeferDestroy(c, h)
    /\ pc' = [pc EXCEPT ![c] = "pop_dec"]
    /\ UNCHANGED <<runVars, lockVars, queueVars, nst, item, next, npush, npop, histVars>>

\* data = next.deref_mut().item.take(); guard.defer_destroy(head)
HePopTake(c) ==
    /\ flavor = "he"
    /\ Running
    /\ pc[c] = "pop_take"
    /\ LET n == loc[c].next
           h == loc[c].head IN
         /\ \E d \in LoadItem(n) : loc' = [loc EXCEPT ![c].data = d]
         /\ item' = Store(item, n, None)
         /\ hazards' = hazards \cup Deref(n)
                         \cup (IF h \in deferred THEN {"double_free"} ELSE {})
         /\ DeferDestroy(c, h)
    /\ pc' = [pc EXCEPT ![c] = "pop_dec"]
    /\ UNCHANGED <<runVars, lockVars, queueVars, nst, next, npush, npop, histVars>>

HePopDec(c) ==
    /\ flavor = "he"
    /\ Running
    /\ pc[c] = "pop_dec"
    /\ len' = len - 1
    /\ Returned(c, loc[c].data, loc[c])
    /\ CloseGuard(c)
    /\ hazards' = hazards \cup CloseHazards(c)
    /\ loc' = [loc EXCEPT ![c] = NoLocals]
    /\ pc' = [pc EXCEPT ![c] = "idle"]
    /\ UNCHANGED <<runVars, lockVars, head, tail, item, next, npush, linkOrder, popOrder>>

\* ------------------------------------------------------------------ CrsQueue::push
CrsPushBegin(p) ==
    /\ flavor = "crs"
    /\ Running
    /\ pc[p] = "idle"
    /\ npush[p] < quota[p]
    /\ \E n \in AllocCells :
         /\ nst' = [nst EXCEPT ![n] = "live"]
         /\ item' = [item EXCEPT ![n] = Value(p, npush[p] + 1)]
         /\ next' = [next EXCEPT ![n] = NULL]
         /\ loc' = [loc EXCEPT ![p].new_node = n]
    /\ pc' = [pc EXCEPT ![p] = "push_ldtail"]
    /\ UNCHANGED <<runVars, lockVars, queueVars, epochVars, hazards, npush, npop, histVars>>

\* old_tail = self.tail.load(); tail_next = &old_tail.next
CrsPushLoadTail(p) ==
    /\ flavor = "crs"
    /\ Running
    /\ pc[p] = "push_ldtail"
    /\ loc' = [loc EXCEPT ![p].old_tail = tail, ![p].tail_next = tail]
    /\ pc' = [pc EXCEPT ![p] = "push_link"]
    /\ UNCHANGED <<runVars, lockVars, queueVars, heapVars, epochVars, hazards, npush, npop, histVars>>

\* tail_next.compare_exchange(null, new_node); loc.tail_next is the cell whose next field tail_next refers to
CrsPushLinkCas(p) ==
    /\ flavor = "crs"
    /\ Running
    /\ pc[p] = "push_link"
    /\ LET t == loc[p].tail_next IN
         /\ hazards' = hazards \cup Deref(t)
         /\ \E cur \in LoadNext(t) :
              IF cur = NULL
              THEN /\ next' = Store(next, t, loc[p].new_node)
                   /\ linkOrder' = Append(linkOrder, Value(p, npush[p] + 1))
                   /\ pc' = [pc EXCEPT ![p] = "push_swing"]
              ELSE /\ pc' = [pc EXCEPT ![p] = "push_ldnext"]
                   /\ UNCHANGED <<next, linkOrder>>
    /\ UNCHANGED <<runVars, lockVars, queueVars, nst, item, epochVars, loc, npush, npop, popOrder, ret, drained, missed>>

\* tail = tail_next.load().as_raw()
CrsPushLoadNext(p) ==
    /\ flavor = "crs"
    /\ Running
    /\ pc[p] = "push_ldnext"
    /\ hazards' = hazards \cup Deref(loc[p].tail_next)
    /\ \E nx \in LoadNext(loc[p].tail_next) : loc' = [loc EXCEPT ![p].walk = nx]
    /\ pc' = [pc EXCEPT ![p] = "push_walk"]
    /\ UNCHANGED <<runVars, lockVars, queueVars, heapVars, epochVars, npush, npop, histVars>>

\* one turn of the "step to tail" loop: nxt = (*tail).next.load()
CrsPushWalk(p) ==
    /\ flavor = "crs"
    /\ Running
    /\ pc[p] = "push_walk"
    /\ hazards' = hazards \cup Deref(loc[p].walk)
    /\ \E nx \in LoadNext(loc[p].walk) :
         IF nx = NULL
         THEN /\ loc' = [loc EXCEPT ![p].tail_next = loc[p].walk, ![p].walk = NULL]
              /\ pc' = [pc EXCEPT ![p] = "push_link"]
         ELSE /\ loc' = [loc EXCEPT ![p].walk = nx]
              /\ UNCHANGED pc
    /\ UNCHANGED <<runVars, lockVars, queueVars, heapVars, epochVars, npush, npop, histVars>>

CrsPushSwingCas(p) ==
    /\ flavor = "crs"
    /\ Running
    /\ pc[p] = "push_swing"
    /\ tail' = IF tail = loc[p].old_tail THEN loc[p].new_node ELSE tail
    /\ pc' = [pc EXCEPT ![p] = "push_inc"]
    /\ UNCHANGED <<runVars, lockVars, len, head, heapVars, epochVars, hazards, loc, npush, npop, histVars>>

CrsPushInc(p) ==
    /\ flavor = "crs"
    /\ Running
    /\ pc[p] = "push_inc"
    /\ len' = len + 1
    /\ CloseGuard(p)
    /\ hazards' = hazards \cup CloseHazards(p)
    /\ npush' = [npush EXCEPT ![p] = @ + 1]
    /\ loc' = [loc EXCEPT ![p] = NoLocals]
    /\ pc' = [pc EXCEPT ![p] = "idle"]
    /\ UNCHANGED <<runVars, lockVars, head, tail, item, next, npop, histVars>>

\* ------------------------------------------------------------------ CrsQueue::pop
\* self.len.compare_exchange(0, 0).is_ok()
CrsIsEmpty == len = 0

CrsPopIsEmpty(c) ==
    /\ flavor = "crs"
    /\ Running
    /\ pc[c] = "idle"
    /\ npop[c] < quota[c]
    /\ IF CrsIsEmpty
       THEN /\ Returned(c, None, Begin(c))
            /\ UNCHANGED <<pc, loc>>
       ELSE /\ pc' = [pc EXCEPT ![c] = "pop_pin"]
            /\ loc' = [loc EXCEPT ![c] = Begin(c)]
            /\ UNCHANGED <<ret, npop, drained, missed>>
    /\ UNCHANGED <<runVars, lockVars, queueVars, heapVars, epochVars, hazards, npush, linkOrder, popOrder>>

CrsPopLoadHead(c) ==
    /\ flavor = "crs"
    /\ Running
    /\ pc[c] \in {"pop_pin", "pop_ldhead"}
    /\ loc' = [loc EXCEPT ![c].head = head, ![c].next = NULL]
    /\ pc' = [pc EXCEPT ![c] = "pop_ldnext"]
    /\ UNCHANGED <<runVars, lockVars, queueVars, heapVars, epochVars, hazards, npush, npop, histVars>>

CrsPopLoadNext(c) ==
    /\ flavor = "crs"
    /\ Running
    /\ pc[c] = "pop_ldnext"
    /\ \E nx \in LoadNext(loc[c].head) :
         IF nx = NULL
         THEN /\ Returned(c, None, loc[c])
              /\ CloseGuard(c)
              /\ hazards' = hazards \cup Deref(loc[c].head) \cup CloseHazards(c)
              /\ loc' = [loc EXCEPT ![c] = NoLocals]
              /\ pc' = [pc EXCEPT ![c] = "idle"]
         ELSE /\ loc' = [loc EXCEPT ![c].next = nx]
              /\ pc' = [pc EXCEPT ![c] = "pop_take_rd"]
              /\ hazards' = hazards \cup Deref(loc[c].head)
              /\ UNCHANGED <<ret, npop, drained, missed, epochVars, nst>>
    /\ UNCHANGED <<runVars, lockVars, queueVars, item, next, npush, linkOrder, popOrder>>

\* data = next.deref_mut().item.take(), before the head CAS: a plain (non-atomic)
\* read of the slot ...
CrsPopTakeRead(c) ==
    /\ flavor = "crs"
    /\ Running
    /\ pc[c] = "pop_take_rd"
    /\ hazards' = hazards \cup Deref(loc[c].next)
    /\ \E d \in LoadItem(loc[c].next) : loc' = [loc EXCEPT ![c].data = d]
    /\ pc' = [pc EXCEPT ![c] = "pop_take_wr"]
    /\ UNCHANGED <<runVars, lockVars, queueVars, heapVars, epochVars, npush, npop, histVars>>

\* ... and a plain write of None to it
CrsPopTakeWrite(c) ==
    /\ flavor = "crs"
    /\ Running
    /\ pc[c] = "pop_take_wr"
    /\ hazards' = hazards \cup Deref(loc[c].next)
    /\ item' = Store(item, loc[c].next, None)
    /\ pc' = [pc EXCEPT ![c] = "pop_cas"]
    /\ UNCHANGED <<runVars, lockVars, queueVars, nst, next, epochVars, loc, npush, npop, histVars>>

\* self.head.compare_exchange(head, next.into_owned()): on success
\* guard.defer_destroy(head); on failure the Owned comes back in the error and
\* is dropped, which frees the cell `next`
CrsPopCas(c) ==
    /\ flavor = "crs"
    /\ Running
    /\ pc[c] = "pop_cas"
    /\ IF head = loc[c].head
       THEN /\ head' = loc[c].next
            /\ popOrder' = Append(popOrder, <<c, npop[c] + 1>>)
            /\ DeferDestroy(c, loc[c].head)
            /\ hazards' = hazards \cup
                 (IF loc[c].head \in deferred THEN {"double_free"} ELSE {})
            /\ pc' = [pc EXCEPT ![c] = "pop_dec"]
            /\ UNCHANGED nst
       ELSE /\ nst' = Store(nst, loc[c].next, "freed")
            /\ hazards' = hazards \cup Release(loc[c].next)
            /\ pc' = [pc EXCEPT ![c] = "pop_ldhead"]
            /\ UNCHANGED <<head, popOrder, epochVars>>
    /\ UNCHANGED <<runVars, lockVars, len, tail, item, next, loc, npush, npop, linkOrder, ret, drained, missed>>

CrsPopDec(c) ==
    /\ flavor = "crs"
    /\ Running
    /\ pc[c] = "pop_dec"
    /\ len' = len - 1
    /\ Returned(c, loc[c].data, loc[c])
    /\ CloseGuard(c)
    /\ hazards' = hazards \cup CloseHazards(c)
    /\ loc' = [loc EXCEPT ![c] = NoLocals]
    /\ pc' = [pc EXCEPT ![c] = "idle"]
    /\ UNCHANGED <<runVars, lockVars, head, tail, item, next, npush, linkOrder, popOrder>>

\* ------------------------------------------------------------------ LinkedQueue::enqueue
LqEnqueueBegin(p) ==
    /\ flavor = "lq"
    /\ Running
    /\ pc[p] = "idle"
    /\ npush[p] < quota[p]
    /\ \E n \in AllocCells :
         /\ nst' = [nst EXCEPT ![n] = "live"]
         /\ item' = [item EXCEPT ![n] = Value(p, npush[p] + 1)]
         /\ next' = [next EXCEPT ![n] = NULL]
         /\ loc' = [loc EXCEPT ![p].new_node = n]
    /\ pc' = [pc EXCEPT ![p] = "push_ldtail"]
    /\ UNCHANGED <<runVars, lockVars, queueVars, epochVars, hazards, npush, npop, histVars>>

LqEnqueueLoadTail(p) ==
    /\ flavor = "lq"
    /\ Running
    /\ pc[p] = "push_ldtail"
    /\ loc' = [loc EXCEPT ![p].old_tail = tail, ![p].tail_next = tail]
    /\ pc' = [pc EXCEPT ![p] = "push_link"]
    /\ UNCHANGED <<runVars, lockVars, queueVars, heapVars, epochVars, hazards, npush, npop, histVars>>

LqEnqueueLinkCas(p) ==
    /\ flavor = "lq"
    /\ Running
    /\ pc[p] = "push_link"
    /\ LET t == loc[p].tail_next IN
         /\ hazards' = hazards \cup Deref(t)
         /\ \E cur \in LoadNext(t) :
              IF cur = NULL
              THEN /\ next' = Store(next, t, loc[p].new_node)
                   /\ linkOrder' = Append(linkOrder, Value(p, npush[p] + 1))
                   /\ pc' = [pc EXCEPT ![p] = "push_swing"]
              ELSE /\ pc' = [pc EXCEPT ![p] = "push_ldnext"]
                   /\ UNCHANGED <<next, linkOrder>>
    /\ UNCHANGED <<runVars, lockVars, queueVars, nst, item, epochVars, loc, npush, npop, popOrder, ret, drained, missed>>

\* next = tail_next.load()
LqEnqueueLoadNext(p) ==
    /\ flavor = "lq"
    /\ Running
    /\ pc[p] = "push_ldnext"
    /\ hazards' = hazards \cup Deref(loc[p].tail_next)
    /\ \E nx \in LoadNext(loc[p].tail_next) : loc' = [loc EXCEPT ![p].walk = nx]
    /\ pc' = [pc EXCEPT ![p] = "push_walk"]
    /\ UNCHANGED <<runVars, lockVars, queueVars, heapVars, epochVars, npush, npop, histVars>>

\* if (*next).next.load().is_null() { break }
LqEnqueueWalk(p) ==
    /\ flavor = "lq"
    /\ Running
    /\ pc[p] = "push_walk"
    /\ hazards' = hazards \cup Deref(loc[p].walk)
    /\ \E nx \in LoadNext(loc[p].walk) :
         IF nx = NULL
         THEN /\ loc' = [loc EXCEPT ![p].tail_next = loc[p].walk, ![p].walk = NULL]
              /\ pc' = [pc EXCEPT ![p] = "push_link"]
         ELSE /\ pc' = [pc EXCEPT ![p] = "push_step"]
              /\ UNCHANGED loc
    /\ UNCHANGED <<runVars, lockVars, queueVars, heapVars, epochVars, npush, npop, histVars>>

\* else { next = (*next).next.load() }
LqEnqueueStep(p) ==
    /\ flavor = "lq"
    /\ Running
    /\ pc[p] = "push_step"
    /\ hazards' = hazards \cup Deref(loc[p].walk)
    /\ \E nx \in LoadNext(loc[p].walk) : loc' = [loc EXCEPT ![p].walk = nx]
    /\ pc' = [pc EXCEPT ![p] = "push_walk"]
    /\ UNCHANGED <<runVars, lockVars, queueVars, heapVars, epochVars, npush, npop, histVars>>

LqEnqueueSwingCas(p) ==
    /\ flavor = "lq"
    /\ Running
    /\ pc[p] = "push_swing"
    /\ tail' = IF tail = loc[p].old_tail THEN loc[p].new_node ELSE tail
    /\ pc' = [pc EXCEPT ![p] = "push_inc"]
    /\ UNCHANGED <<runVars, lockVars, len, head, heapVars, epochVars, hazards, loc, npush, npop, histVars>>

LqEnqueueInc(p) ==
    /\ flavor = "lq"
    /\ Running
    /\ pc[p] = "push_inc"
    /\ len' = len + 1
    /\ npush' = [npush EXCEPT ![p] = @ + 1]
    /\ loc' = [loc EXCEPT ![p] = NoLocals]
    /\ pc' = [pc EXCEPT ![p] = "idle"]
    /\ UNCHANGED <<runVars, lockVars, head, tail, heapVars, epochVars, hazards, npop, histVars>>

\* ------------------------------------------------------------------ LinkedQueue::dequeue
LqIsEmpty == len = 0

LqDequeueIsEmpty(c) ==
    /\ flavor = "lq"
    /\ Running
    /\ pc[c] = "idle"
    /\ npop[c] < quota[c]
    /\ IF LqIsEmpty
       THEN /\ Returned(c, None, Begin(c))
            /\ UNCHANGED <<pc, loc>>
       ELSE /\ pc' = [pc EXCEPT ![c] = "pop_ldhead"]
            /\ loc' = [loc EXCEPT ![c] = Begin(c)]
            /\ UNCHANGED <<ret, npop, drained, missed>>
    /\ UNCHANGED <<runVars, lockVars, queueVars, heapVars, epochVars, hazards, npush, linkOrder, popOrder>>

LqDequeueLoadHead(c) ==
    /\ flavor = "lq"
    /\ Running
    /\ pc[c] = "pop_ldhead"
    /\ loc' = [loc EXCEPT ![c].head = head, ![c].next = NULL]
    /\ pc' = [pc EXCEPT ![c] = "pop_ldnext"]
    /\ UNCHANGED <<runVars, lockVars, queueVars, heapVars, epochVars, hazards, npush, npop, histVars>>

\* next = (*head).next.load(): no test for null follows
LqDequeueLoadNext(c) ==
    /\ flavor = "lq"
    /\ Running
    /\ pc[c] = "pop_ldnext"
    /\ hazards' = hazards \cup Deref(loc[c].head)
    /\ \E nx \in LoadNext(loc[c].head) : loc' = [loc EXCEPT ![c].next = nx]
    /\ pc' = [pc EXCEPT ![c] = "pop_cas"]
    /\ UNCHANGED <<runVars, lockVars, queueVars, heapVars, epochVars, npush, npop, histVars>>

LqDequeueCas(c) ==
    /\ flavor = "lq"
    /\ Running
    /\ pc[c] = "pop_cas"
    /\ IF head = loc[c].head
       THEN /\ head' = loc[c].next
            /\ popOrder' = Append(popOrder, <<c, npop[c] + 1>>)
            /\ pc' = [pc EXCEPT ![c] = "pop_free"]
       ELSE /\ pc' = [pc EXCEPT ![c] = "pop_ldhead"]
            /\ UNCHANGED <<head, popOrder>>
    /\ UNCHANGED <<runVars, lockVars, len, tail, heapVars, epochVars, hazards, loc, npush, npop, linkOrder, ret, drained, missed>>

\* a LqDequeueFree that frees the node it installed as head
LqDequeueFreeNext(c) ==
    /\ flavor = "lq"
    /\ Running
    /\ pc[c] = "pop_free"
    /\ nst' = Store(nst, loc[c].next, "freed")
    /\ hazards' = hazards \cup Release(loc[c].next)
    /\ pc' = [pc EXCEPT ![c] = "pop_dec"]
    /\ UNCHANGED <<runVars, lockVars, queueVars, item, next, epochVars, loc, npush, npop, histVars>>

\* Box::from_raw(head): the box is dropped at once, which frees the old sentinel
LqDequeueFree(c) ==
    /\ flavor = "lq"
    /\ Running
    /\ pc[c] = "pop_free"
    /\ nst' = Store(nst, loc[c].head, "freed")
    /\ hazards' = hazards \cup Release(loc[c].head)
    /\ pc' = [pc EXCEPT ![c] = "pop_dec"]
    /\ UNCHANGED <<runVars, lockVars, queueVars, item, next, epochVars, loc, npush, npop, histVars>>

LqDequeueDec(c) ==
    /\ flavor = "lq"
    /\ Running
    /\ pc[c] = "pop_dec"
    /\ len' = len - 1
    /\ pc' = [pc EXCEPT ![c] = "pop_take"]
    /\ UNCHANGED <<runVars, lockVars, head, tail, heapVars, epochVars, hazards, loc, npush, npop, histVars>>

\* (*next).item.take() is the return value
LqDequeueTake(c) ==
    /\ flavor = "lq"
    /\ Running
    /\ pc[c] = "pop_take"
    /\ hazards' = hazards \cup Deref(loc[c].next)
    /\ \E d \in LoadItem(loc[c].next) : Returned(c, d, loc[c])
    /\ item' = Store(item, loc[c].next, None)
    /\ loc' = [loc EXCEPT ![c] = NoLocals]
    /\ pc' = [pc EXCEPT ![c] = "idle"]
    /\ UNCHANGED <<runVars, lockVars, queueVars, nst, next, epochVars, npush, linkOrder, popOrder>>

\* ------------------------------------------------------------------ LockQueue
\* a LockPushLock that does not wait for the mutex to be free
LockPushBarge(p) ==
    /\ flavor = "lock"
    /\ pc[p] = "idle"
    /\ npush[p] < quota[p]
    /\ mutex' = p
    /\ pc' = [pc EXCEPT ![p] = "push_locked"]
    /\ UNCHANGED <<runVars, list, queueVars, heapVars, epochVars, hazards, loc, npush, npop, histVars>>

\* let mut guard = self.inner.lock().unwrap()
LockPushLock(p) ==
    /\ flavor = "lock"
    /\ pc[p] = "idle"
    /\ npush[p] < quota[p]
    /\ mutex = "free"
    /\ mutex' = p
    /\ pc' = [pc EXCEPT ![p] = "push_locked"]
    /\ UNCHANGED <<runVars, list, queueVars, heapVars, epochVars, hazards, loc, npush, npop, histVars>>

\* guard.push_back(item); the guard is dropped on return
LockPushBack(p) ==
    /\ flavor = "lock"
    /\ pc[p] = "push_locked"
    /\ list' = Append(list, Value(p, npush[p] + 1))
    /\ linkOrder' = Append(linkOrder, Value(p, npush[p] + 1))
    /\ mutex' = "free"
    /\ npush' = [npush EXCEPT ![p] = @ + 1]
    /\ pc' = [pc EXCEPT ![p] = "idle"]
    /\ UNCHANGED <<runVars, queueVars, heapVars, epochVars, hazards, loc, npop, popOrder, ret, drained, missed>>

LockPopLock(c) ==
    /\ flavor = "lock"
    /\ pc[c] = "idle"
    /\ npop[c] < quota[c]
    /\ mutex = "free"
    /\ mutex' = c
    /\ loc' = [loc EXCEPT ![c] = Begin(c)]
    /\ pc' = [pc EXCEPT ![c] = "pop_locked"]
    /\ UNCHANGED <<runVars, list, queueVars, heapVars, epochVars, hazards, npush, npop, histVars>>

\* a LockPopFront that takes the list's last element instead of its first
LockPopBack(c) ==
    /\ flavor = "lock"
    /\ pc[c] = "pop_locked"
    /\ IF list = <<>>
       THEN /\ Returned(c, None, loc[c])
            /\ UNCHANGED <<list, popOrder>>
       ELSE /\ Returned(c, list[Len(list)], loc[c])
            /\ list' = SubSeq(list, 1, Len(list) - 1)
            /\ popOrder' = Append(popOrder, <<c, npop[c] + 1>>)
    /\ mutex' = "free"
    /\ loc' = [loc EXCEPT ![c] = NoLocals]
    /\ pc' = [pc EXCEPT ![c] = "idle"]
    /\ UNCHANGED <<runVars, queueVars, heapVars, epochVars, hazards, npush, linkOrder>>

\* guard.pop_front(); the guard is dropped on return
LockPopFront(c) ==
    /\ flavor = "lock"
    /\ pc[c] = "pop_locked"
    /\ IF list = <<>>
       THEN /\ Returned(c, None, loc[c])
            /\ UNCHANGED <<list, popOrder>>
       ELSE /\ Returned(c, Head(list), loc[c])
            /\ list' = Tail(list)
            /\ popOrder' = Append(popOrder, <<c, npop[c] + 1>>)
    /\ mutex' = "free"
    /\ loc' = [loc EXCEPT ![c] = NoLocals]
    /\ pc' = [pc EXCEPT ![c] = "idle"]
    /\ UNCHANGED <<runVars, queueVars, heapVars, epochVars, hazards, npush, linkOrder>>

\* is_empty: let guard = self.inner.lock().unwrap()
LockIsEmptyLock(c) ==
    /\ flavor = "lock"
    /\ pc[c] = "idle"
    /\ mutex = "free"
    /\ mutex' = c
    /\ pc' = [pc EXCEPT ![c] = "empty_locked"]
    /\ UNCHANGED <<runVars, list, queueVars, heapVars, epochVars, hazards, loc, npush, npop, histVars>>

\* guard.is_empty(); the guard is dropped on return.  The result steers only the
\* caller's loop, so it is not recorded.
LockIsEmptyRead(c) ==
    /\ flavor = "lock"
    /\ pc[c] = "empty_locked"
    /\ mutex' = "free"
    /\ pc' = [pc EXCEPT ![c] = "idle"]
    /\ UNCHANGED <<runVars, list, queueVars, heapVars, epochVars, hazards, loc, npush, npop, histVars>>

\* ------------------------------------------------------------------ specifications
InitHe ==
    /\ flavor = "he"
    /\ quota = WorkHe
    /\ InitQueue

InitCrs ==
    /\ flavor = "crs"
    /\ quota = WorkCrs
    /\ InitQueue

\* LinkedQueue under its contract: one consumer thread
InitLq ==
    /\ flavor = "lq"
    /\ quota = WorkSC
    /\ InitQueue

\* CrsQueue with one consumer thread
InitCrsSC ==
    /\ flavor = "crs"
    /\ quota = WorkSC
    /\ InitQueue

\* LinkedQueue shared by two consumer threads: dequeue takes &self, and the type
\* is Sync, so the compiler accepts it
InitLqMC ==
    /\ flavor = "lq"
    /\ quota = WorkCrs
    /\ InitQueue

InitLock ==
    /\ flavor = "lock"
    /\ quota = WorkHe
    /\ InitQueue

Init == InitHe \/ InitCrs \/ InitCrsSC \/ InitLq \/ InitLock

NextHe ==
    \/ \E p \in Producers : HePushBegin(p)
    \/ \E p \in Producers : HePushLoadTail(p)
    \/ \E p \in Producers : HePushLinkCas(p)
    \/ \E p \in Producers : HePushLoadNext(p)
    \/ \E p \in Producers : HePushHelpCas(p)
    \/ \E p \in Producers : HePushSwingCas(p)
    \/ \E p \in Producers : HePushInc(p)
    \/ \E c \in Consumers : HePopIsEmpty(c)
    \/ \E c \in Consumers : HePopLoadHead(c)
    \/ \E c \in Consumers : HePopLoadNext(c)
    \/ \E c \in Consumers : HePopCas(c)
    \/ \E c \in Consumers : HePopTake(c)
    \/ \E c \in Consumers : HePopDec(c)

NextCrs ==
    \/ \E p \in Producers : CrsPushBegin(p)
    \/ \E p \in Producers : CrsPushLoadTail(p)
    \/ \E p \in Producers : CrsPushLinkCas(p)
    \/ \E p \in Producers : CrsPushLoadNext(p)
    \/ \E p \in Producers : CrsPushWalk(p)
    \/ \E p \in Producers : CrsPushSwingCas(p)
    \/ \E p \in Producers : CrsPushInc(p)
    \/ \E c \in Consumers : CrsPopIsEmpty(c)
    \/ \E c \in Consumers : CrsPopLoadHead(c)
    \/ \E c \in Consumers : CrsPopLoadNext(c)
    \/ \E c \in Consumers : CrsPopTakeRead(c)
    \/ \E c \in Consumers : CrsPopTakeWrite(c)
    \/ \E c \in Consumers : CrsPopCas(c)
    \/ \E c \in Consumers : CrsPopDec(c)

NextLq ==
    \/ \E p \in Producers : LqEnqueueBegin(p)
    \/ \E p \in Producers : LqEnqueueLoadTail(p)
    \/ \E p \in Producers : LqEnqueueLinkCas(p)
    \/ \E p \in Producers : LqEnqueueLoadNext(p)
    \/ \E p \in Producers : LqEnqueueWalk(p)
    \/ \E p \in Producers : LqEnqueueStep(p)
    \/ \E p \in Producers : LqEnqueueSwingCas(p)
    \/ \E p \in Producers : LqEnqueueInc(p)
    \/ \E c \in Consumers : LqDequeueIsEmpty(c)
    \/ \E c \in Consumers : LqDequeueLoadHead(c)
    \/ \E c \in Consumers : LqDequeueLoadNext(c)
    \/ \E c \in Consumers : LqDequeueCas(c)
    \/ \E c \in Consumers : LqDequeueFree(c)
    \/ \E c \in Consumers : LqDequeueDec(c)
    \/ \E c \in Consumers : LqDequeueTake(c)

NextLock ==
    \/ \E p \in Producers : LockPushLock(p)
    \/ \E p \in Producers : LockPushBack(p)
    \/ \E c \in Consumers : LockPopLock(c)
    \/ \E c \in Consumers : LockPopFront(c)
    \/ \E c \in Consumers : LockIsEmptyLock(c)
    \/ \E c \in Consumers : LockIsEmptyRead(c)

Next == NextHe \/ NextCrs \/ NextLq \/ NextLock

SpecHe == InitHe /\ [][NextHe]_vars
SpecCrs == InitCrs /\ [][NextCrs]_vars
SpecCrsSC == InitCrsSC /\ [][NextCrs]_vars
SpecLq == InitLq /\ [][NextLq]_vars
SpecLqMC == InitLqMC /\ [][NextLq]_vars
SpecLock == InitLock /\ [][NextLock]_vars
Spec == Init /\ [][Next]_vars

\* ------------------------------------------------------------------ claims
\* the pop calls that returned value v
ReturnsOf(v) == {x \in Consumers \X (1 .. (MaxPop + 1)) :
                   x[2] <= Len(ret[x[1]]) /\ ret[x[1]][x[2]] = v}
\* no call is in progress
Quiescent == \A t \in Threads : pc[t] = "idle"
\* no memory error has happened so far
NoHazard == hazards = {}
\* the return value of the pop call that won the k-th head CAS, if it has returned
WinnerReturned(k) == popOrder[k][2] <= Len(ret[popOrder[k][1]])
WinnerValue(k) == ret[popOrder[k][1]][popOrder[k][2]]
\* the positions in the removal order of the pops that returned v
RemovalIndex(v) == {k \in 1 .. Len(popOrder) : WinnerReturned(k) /\ WinnerValue(k) = v}
\* the cells reachable from head along the next fields
Chain ==
    LET ChainFrom[i \in 0 .. MaxNodes] ==
          IF i = 0 THEN {head}
          ELSE ChainFrom[i - 1] \cup {next[m] : m \in ChainFrom[i - 1]}
    IN  ChainFrom[MaxNodes] \ {NULL}

\* C1 (HeQueue): no value is returned by two pops, and once every push has
\* returned and a later pop has found the queue empty with no call in progress,
\* every pushed value has been returned by exactly one pop.
C1_HeExactlyOnce ==
    flavor = "he" =>
      /\ \A v \in AllValues : Cardinality(ReturnsOf(v)) <= 1
      /\ (AllPushesReturned /\ drained /\ Quiescent)
           => \A v \in AllValues : Cardinality(ReturnsOf(v)) = 1
\* C1 restricted to executions in which no memory error has happened
C1_HeExactlyOnceWhileSafe == NoHazard => C1_HeExactlyOnce

\* C2 (CrsQueue, the MPMC test): when the producers are done, no call is in
\* progress and the consumers see is_empty(), the popped values are the pushed
\* values, each once.
C2_CrsConservation ==
    (flavor = "crs" /\ AllPushesReturned /\ Quiescent /\ CrsIsEmpty)
      => \A v \in AllValues : Cardinality(ReturnsOf(v)) = 1

\* C3 (HeQueue): no thread dereferences a node that has been freed.
C3_HeNoUseAfterFree == flavor = "he" => "uaf" \notin hazards

\* C4 (CrsQueue): no thread dereferences a node that has been freed; the run
\* it is checked on has several producers and one consumer.
C4_CrsNoUseAfterFree == flavor = "crs" => "uaf" \notin hazards

\* C5 (LinkedQueue, one consumer thread): no memory error happens.
C5_LqSingleConsumerSafe == flavor = "lq" => NoHazard

\* C6 (the lock-free variants; LinkedQueue with one consumer): the pop that won
\* the k-th head CAS returns the value that was linked k-th.  It is stated of the
\* states reached without a memory error, so that a violation owes nothing to one.
C6_Fifo ==
    (flavor \in {"he", "crs", "lq"} /\ NoHazard) =>
      \A k \in 1 .. Len(popOrder) :
         WinnerReturned(k) => (k <= Len(linkOrder) /\ WinnerValue(k) = linkOrder[k])

C8_NoneOnlyIfEmpty == (flavor \in {"he", "crs"} /\ NoHazard) => ~missed

\* C9 (CrsQueue against HeQueue): what a caller of HeQueue can rely on while no
\* memory error has happened, that a pop which removed a node returns Some,
\* holds of CrsQueue too.
C9_WinnerReturnsSome ==
    (flavor \in {"he", "crs"} /\ NoHazard) =>
      \A k \in 1 .. Len(popOrder) : WinnerReturned(k) => WinnerValue(k) # None

\* C10 (LinkedQueue, CrsQueue, HeQueue): tail is a live node reachable from head.
\* It is stated of the states reached without a memory error.
C10_TailReachable ==
    (flavor \in {"he", "crs", "lq"} /\ NoHazard) => (tail \in Chain /\ nst[tail] = "live")

\* C11 (HeQueue, CrsQueue): a node's item is taken only at or after the head CAS
\* that makes the node the head, so every node still behind head in the chain
\* holds its item.  It is stated of the states reached without a memory error.
C11_TakeOnlyAfterHeadCas ==
    (flavor \in {"he", "crs"} /\ NoHazard) => \A n \in Chain \ {head} : item[n] # None

\* C12 (HeQueue, CrsQueue): no node is freed while it is reachable from head, and
\* no node is freed twice.  It is stated of the states in which no freed node has
\* been dereferenced.
C12_NodeLifecycle ==
    (flavor \in {"he", "crs"} /\ hazards \cap {"uaf", "null_deref"} = {}) =>
      /\ "double_free" \notin hazards
      /\ \A n \in Chain : nst[n] = "live"

\* the pop of consumer c has won the head CAS that made its node `next` the head
\* and has not yet taken that node's item (HeQueue: between the CAS and the take;
\* LinkedQueue: between the CAS and the take that follows the free and the
\* length decrement; CrsQueue takes before the CAS)
TakePending(c) ==
    /\ loc[c].next = head
    /\ \/ flavor = "he" /\ pc[c] = "pop_take"
       \/ flavor = "lq" /\ pc[c] \in {"pop_free", "pop_dec", "pop_take"}

C14_QuiescentSize ==
    (flavor \in {"he", "crs"} /\ Quiescent) =>
      /\ len = Cardinality(Chain \ {head})
      /\ len = npush["p1"] + npush["p2"] - Len(popOrder)

\* cell b is reached from cell a along the next fields
Reaches(a, b) ==
    LET From[i \in 0 .. MaxNodes] ==
          IF i = 0 THEN {a} ELSE From[i - 1] \cup {next[n] : n \in From[i - 1]}
    IN  b \in From[MaxNodes]

\* C15 (every lock-free variant): a push whose link CAS has succeeded has its node
\* in the chain: the node is reachable from head, or head is reachable from it
\* (pops have already moved head past it).
C15_PushLinksNode ==
    flavor \in {"he", "crs", "lq"} =>
      \A p \in Producers :
         pc[p] \in {"push_swing", "push_inc"} =>
           (Reaches(head, loc[p].new_node) \/ Reaches(loc[p].new_node, head))

\* ------------------------------------------------------------------ fair scheduling
\* one step of consumer c's thread, whichever queue it runs against
PopStep(c) ==
    \/ HePopIsEmpty(c) \/ HePopLoadHead(c) \/ HePopLoadNext(c) \/ HePopCas(c)
    \/ HePopTake(c) \/ HePopDec(c)
    \/ CrsPopIsEmpty(c) \/ CrsPopLoadHead(c) \/ CrsPopLoadNext(c) \/ CrsPopTakeRead(c)
    \/ CrsPopTakeWrite(c) \/ CrsPopCas(c) \/ CrsPopDec(c)
    \/ LqDequeueIsEmpty(c) \/ LqDequeueLoadHead(c) \/ LqDequeueLoadNext(c)
    \/ LqDequeueCas(c) \/ LqDequeueFree(c) \/ LqDequeueDec(c) \/ LqDequeueTake(c)

\* a consumer thread that can take a step eventually takes one; nothing is
\* assumed of the producers, which may stall at any point of a push
ConsumerFairness == \A c \in Consumers : WF_vars(PopStep(c))

\* LinkedQueue under its contract with fairly scheduled consumers
SpecLqFair == SpecLq /\ ConsumerFairness

\* C16 (every lock-free variant): every pop call that has begun returns, whatever
\* the producers do, provided the consumer's own thread keeps taking steps.
C16_PopReturns ==
    \A c \in Consumers :
       (flavor \in {"he", "crs", "lq"} /\ pc[c] # "idle") ~> (pc[c] = "idle")

\* C16, the retry condition: a pop goes back to reload head only from its head
\* CAS, and only when head no longer equals the snapshot it loaded; head is
\* changed by nothing but the successful head CAS of a pop.
C16_RetryOnlyAfterLostCas ==
    [][/\ \A c \in Consumers :
            (pc[c] # "pop_ldhead" /\ pc[c] # "idle" /\ pc'[c] = "pop_ldhead") =>
               (pc[c] = "pop_cas" /\ head # loc[c].head)
       /\ head' # head =>
            \E c \in Consumers : pc[c] = "pop_cas" /\ head = loc[c].head /\ pc'[c] # pc[c]]_vars

\* the cells that hold or held a node
Allocated == {n \in Nodes : nst[n] # "unalloc"}

\* C17 (every lock-free variant): head references a node; the nodes reached from
\* head along next contain exactly one node whose next is null and no cycle; and
\* no node is the successor of two nodes.
C17_ChainShape ==
    flavor \in {"he", "crs", "lq"} =>
      /\ head \in Nodes
      /\ Cardinality({n \in Chain : next[n] = NULL}) = 1
      /\ \A n \in Chain : ~Reaches(next[n], n)
      /\ \A a, b \in Allocated : (a # b /\ next[a] = next[b]) => next[a] = NULL

\* the node whose next field producer p's link CAS addresses
LinkTarget(p) == IF flavor = "he" THEN loc[p].old_tail ELSE loc[p].tail_next

\* C17, the write to next: a link CAS that succeeds writes the next field of a
\* node that is allocated and whose next field was null until then.
C17_NextWrittenOnce ==
    [][\A p \in Producers :
          (pc[p] = "push_link" /\ pc'[p] = "push_swing") =>
             (nst[LinkTarget(p)] = "live" /\ next[LinkTarget(p)] = NULL)]_vars

\* thread t is inside push, pop or is_empty of the LockQueue
InLock(t) == pc[t] \in {"push_locked", "pop_locked", "empty_locked"}

\* C18 (LockQueue): a thread is inside push, pop or is_empty exactly while it
\* holds the mutex, so at most one thread is inside at a time; the list is the
\* pushed values not yet popped, in the order the pushes acquired the lock, and
\* the k-th pop that removed a value returned the k-th value pushed; a pop
\* returns None exactly when the list is empty while it holds the lock; after a
\* drain every pushed value has been returned exactly once.
C18_LockQueueSerial ==
    /\ [](flavor = "lock" =>
            /\ \A t \in Threads : InLock(t) <=> mutex = t
            /\ Len(popOrder) <= Len(linkOrder)
            /\ list = SubSeq(linkOrder, Len(popOrder) + 1, Len(linkOrder))
            /\ \A k \in 1 .. Len(popOrder) :
                  WinnerReturned(k) /\ WinnerValue(k) = linkOrder[k]
            /\ \A v \in AllValues : Cardinality(ReturnsOf(v)) <= 1
            /\ (AllPushesReturned /\ drained) =>
                  \A v \in AllValues : Cardinality(ReturnsOf(v)) = 1)
    /\ [][\A c \in Consumers :
            (flavor = "lock" /\ pc[c] = "pop_locked" /\ pc'[c] = "idle") =>
               /\ Len(ret'[c]) = Len(ret[c]) + 1
               /\ (ret'[c][Len(ret'[c])] = None) <=> (list = <<>>)
               /\ list # <<>> => ret'[c][Len(ret'[c])] = Head(list)]_vars

\* C18's case: the LockQueue has been drained by pops of both consumers, and a
\* consumer is inside a further call, holding the mutex
C18_LockQueueDrained ==
    /\ flavor = "lock"
    /\ AllPushesReturned
    /\ drained
    /\ Len(popOrder) = Cardinality(AllValues)
    /\ \E k1, k2 \in 1 .. Len(popOrder) : popOrder[k1][1] # popOrder[k2][1]
    /\ \E c \in Consumers : InLock(c)

\* an epoch-flavor queue at rest that holds nothing: no call in progress, the
\* length counter is 0 and the chain is the sentinel alone
EmptyAtRest ==
    /\ flavor \in {"he", "crs"}
    /\ Quiescent
    /\ len = 0
    /\ Chain = {head}

\* C19 (HeQueue, CrsQueue): on a queue at rest that holds nothing, size() is 0,
\* is_empty() is true, and a pop that is called returns None in its first step
\* and leaves head, tail, the length counter and every node unchanged.
C19_PopOnEmptyQueue ==
    [][EmptyAtRest =>
         /\ size = 0
         /\ flavor = "he" => HeIsEmpty
         /\ flavor = "crs" => CrsIsEmpty
         /\ \A c \in Consumers :
              (pc'[c] # pc[c] \/ ret'[c] # ret[c]) =>
                 /\ pc'[c] = "idle"
                 /\ ret'[c] = Append(ret[c], None)
                 /\ UNCHANGED <<head, tail, len, nst, item, next>>]_vars

\* C19's case: a queue that held values and was drained is at rest; the pop
\* that removed the last value linked was followed, in the same consumer, by a
\* pop that returned None
C19_PoppedWhenDrained ==
    /\ EmptyAtRest
    /\ NoHazard
    /\ Len(popOrder) = Len(linkOrder)
    /\ Len(popOrder) > 0
    /\ \E c \in Consumers :
         /\ Len(ret[c]) >= 2
         /\ ret[c][Len(ret[c])] = None
         /\ ret[c][Len(ret[c]) - 1] = linkOrder[Len(linkOrder)]

\* C20 (LinkedQueue, any number of consumers): head is never null and always
\* references a live node, the sentinel.  It is stated of the states reached
\* without a memory error.
C20_LqHeadNeverNull ==
    (flavor = "lq" /\ NoHazard) => (head \in Nodes /\ nst[head] = "live")

\* C21 (LinkedQueue, two consumers): a consumer that holds a head snapshot whose
\* node has been freed holds a node that is no longer head: the node was the
\* sentinel that a dequeue winning the head CAS replaced and freed, and the
\* holder's own head CAS on that snapshot is going to fail.
C21_FreedSnapshotIsOldSentinel ==
    flavor = "lq" =>
      \A c \in Consumers :
         (pc[c] \in {"pop_ldnext", "pop_cas"} /\ nst[loc[c].head] = "freed") =>
            (head # loc[c].head /\ Len(popOrder) > 0)

\* C21's case: one value was enqueued; one dequeue has won the head CAS and
\* freed the old sentinel; the other consumer, which loaded the same head before
\* that CAS, has then read the freed node's next field.  No second node was ever
\* allocated, so the use-after-free is the consumer's.
C21_ConsumerReadFreedHead ==
    /\ flavor = "lq"
    /\ nst[3] = "unalloc"
    /\ Len(popOrder) = 1
    /\ "uaf" \in hazards
    /\ \E c \in Consumers : pc[c] = "pop_cas" /\ nst[loc[c].head] = "freed"

\* the pops that have won a head CAS and not yet decremented the length counter
PendingDec ==
    Cardinality({c \in Consumers :
                   \/ flavor = "he" /\ pc[c] \in {"pop_take", "pop_dec"}
                   \/ flavor = "crs" /\ pc[c] = "pop_dec"
                   \/ flavor = "lq" /\ pc[c] \in {"pop_free", "pop_dec"}})

\* the increments of the length counter performed so far: its value plus the
\* decrements performed, one for each pop that won a head CAS and has passed its
\* fetch_sub
Increments == len + (Len(popOrder) - PendingDec)

LastNodes == {n \in Chain : next[n] = NULL}

\* tail references a node before the true last node
TailLags == \E l \in LastNodes : tail # l /\ Reaches(tail, l)

\* producer p1's last push is in progress; it is the push that runs alone
SoloRun == pc["p1"] # "idle" /\ npush["p1"] = quota["p1"] - 1

\* p1's last push is called only on a queue at rest whose tail lags, and before
\* any memory error
SoloBegin(p) ==
    (p = "p1" /\ npush["p1"] = quota["p1"] - 1) => (Quiescent /\ NoHazard /\ TailLags)

\* while the push that runs alone is in progress no other thread takes a step
CanStep(t) == SoloRun => t = "p1"

\* CrsQueue scheduled so that p1's last push starts at rest and runs alone
NextCrsSolo ==
    \/ \E p \in Producers : CanStep(p) /\ SoloBegin(p) /\ CrsPushBegin(p)
    \/ \E p \in Producers : CanStep(p) /\ CrsPushLoadTail(p)
    \/ \E p \in Producers : CanStep(p) /\ CrsPushLinkCas(p)
    \/ \E p \in Producers : CanStep(p) /\ CrsPushLoadNext(p)
    \/ \E p \in Producers : CanStep(p) /\ CrsPushWalk(p)
    \/ \E p \in Producers : CanStep(p) /\ CrsPushSwingCas(p)
    \/ \E p \in Producers : CanStep(p) /\ CrsPushInc(p)
    \/ \E c \in Consumers : CanStep(c) /\ CrsPopIsEmpty(c)
    \/ \E c \in Consumers : CanStep(c) /\ CrsPopLoadHead(c)
    \/ \E c \in Consumers : CanStep(c) /\ CrsPopLoadNext(c)
    \/ \E c \in Consumers : CanStep(c) /\ CrsPopTakeRead(c)
    \/ \E c \in Consumers : CanStep(c) /\ CrsPopTakeWrite(c)
    \/ \E c \in Consumers : CanStep(c) /\ CrsPopCas(c)
    \/ \E c \in Consumers : CanStep(c) /\ CrsPopDec(c)

SpecCrsSolo == InitCrsSC /\ [][NextCrsSolo]_vars

\* C23 (CrsQueue): a push that started on a queue at rest whose tail lagged, and
\* ran alone, returns without a memory error, with its node as the true last
\* node of the chain and with tail referencing that node.
C23_SoloPushRepairsLag ==
    [][(SoloRun /\ pc'["p1"] = "idle") =>
          /\ hazards' = {}
          /\ tail' = loc["p1"].new_node
          /\ next'[tail'] = NULL
          /\ Reaches(head', tail')]_vars

\* ------------------------------------------------------------------ lq_test::test_mpsc
\* flag.fetch_sub(1) at the end of a producer thread, after its last enqueue
MpscReport(p) ==
    /\ flavor = "lq"
    /\ Running
    /\ pc[p] = "idle"
    /\ npush[p] = quota[p]
    /\ flag' = flag - 1
    /\ pc' = [pc EXCEPT ![p] = "done"]
    /\ UNCHANGED <<flavor, quota, lockVars, queueVars, heapVars, epochVars, hazards, loc, npush, npop, histVars>>

\* while flag.load() != 0 { c.dequeue() ... }: the loop test passes and dequeue
\* is entered; the load of flag and dequeue's load of len are taken together
MpscDequeue(c) == flag # 0 /\ LqDequeueIsEmpty(c)

\* the loop test fails: the consumer leaves the loop with what it has summed
MpscLeave(c) ==
    /\ flavor = "lq"
    /\ Running
    /\ quota[c] > 0
    /\ pc[c] = "idle"
    /\ flag = 0
    /\ pc' = [pc EXCEPT ![c] = "left"]
    /\ UNCHANGED <<runVars, lockVars, queueVars, heapVars, epochVars, hazards, loc, npush, npop, histVars>>

NextLqMpsc ==
    \/ \E p \in Producers : LqEnqueueBegin(p)
    \/ \E p \in Producers : LqEnqueueLoadTail(p)
    \/ \E p \in Producers : LqEnqueueLinkCas(p)
    \/ \E p \in Producers : LqEnqueueLoadNext(p)
    \/ \E p \in Producers : LqEnqueueWalk(p)
    \/ \E p \in Producers : LqEnqueueStep(p)
    \/ \E p \in Producers : LqEnqueueSwingCas(p)
    \/ \E p \in Producers : LqEnqueueInc(p)
    \/ \E p \in Producers : MpscReport(p)
    \/ \E c \in Consumers : MpscDequeue(c)
    \/ \E c \in Consumers : LqDequeueLoadHead(c)
    \/ \E c \in Consumers : LqDequeueLoadNext(c)
    \/ \E c \in Consumers : LqDequeueCas(c)
    \/ \E c \in Consumers : LqDequeueFree(c)
    \/ \E c \in Consumers : LqDequeueDec(c)
    \/ \E c \in Consumers : LqDequeueTake(c)
    \/ \E c \in Consumers : MpscLeave(c)

SpecLqMpsc == InitLq /\ [][NextLqMpsc]_vars

\* sum += num over the values a consumer's dequeues returned (None adds nothing)
SumOf(s) ==
    LET Upto[i \in 0 .. Len(s)] == IF i = 0 THEN 0 ELSE Upto[i - 1] + s[i]
    IN  Upto[Len(s)]

\* (0..(3 * pad)).sum(): the sum of all the values the producers enqueue
TotalSum == SumOf([v \in 1 .. Cardinality(Values) |-> IF v \in AllValues THEN v ELSE 0])

\* C24 (lq_test::test_mpsc): when the consumer has left its loop, the sum of the
\* values it dequeued is the sum of all the values enqueued.  It is stated of the
\* runs without a memory error.
C24_MpscSumComplete ==
    (flavor = "lq" /\ NoHazard) =>
      \A c \in Consumers : pc[c] = "left" => SumOf(ret[c]) = TotalSum

\* the pushes that have been started: those returned and those in progress
PushesStarted ==
    npush["p1"] + npush["p2"] + Cardinality({p \in Producers : pc[p] # "idle"})

\* C25 (HeQueue, CrsQueue, two consumers): the length counter never wraps below
\* zero (len counts pushes minus pops, so a wrapped counter is a negative len),
\* and size() is at most the number of pushes started.  It is stated of the
\* states reached without a memory error.
C25_LenNeverWraps ==
    (flavor \in {"he", "crs"} /\ NoHazard) => (len >= 0 /\ len <= PushesStarted)

\* C26 (HeQueue): tail references the true last node of the chain, or the node
\* just before it while the push that linked the last node has yet to run its
\* own tail CAS.
C26_HeTailLagsAtMostOne ==
    flavor = "he" =>
      \E l \in LastNodes :
         \/ tail = l
         \/ /\ next[tail] = l
            /\ \E p \in Producers : pc[p] = "push_swing" /\ loc[p].new_node = l

\* C26's case: tail lags in a HeQueue from which pops have removed nodes, and
\* the other producer has found its link CAS lost and is about to help tail on
C26_HeTailLagging ==
    /\ flavor = "he"
    /\ tail \notin LastNodes
    /\ Len(popOrder) > 0
    /\ \E p \in Producers : pc[p] = "push_help" /\ loc[p].old_tail = tail

\* a step that changes tail sets it to a node reached from the node it
\* referenced before (the tail CASes leave the next fields alone)
TailStepsForward == tail' # tail => (tail' \in Nodes /\ Reaches(tail, tail'))

\* C27 (CrsQueue, HeQueue, LinkedQueue): every step that changes tail moves it
\* to a node linked later in the chain; tail never becomes null.
C27_TailMovesForward ==
    [][(flavor \in {"he", "crs", "lq"}) => TailStepsForward]_vars


\* C28 (LinkedQueue, one consumer): a dequeue that passed the length check reads
\* a non-null next pointer from head, so it never installs null as head, never
\* frees the last node of the chain and never takes an item through null.
C28_DequeueNextNonNull ==
    flavor = "lq" =>
      /\ head # NULL
      /\ \A c \in Consumers :
           pc[c] \in {"pop_cas", "pop_free", "pop_dec", "pop_take"} =>
              loc[c].next # NULL
=============================================================================
